---- MODULE Spec2Model ----
(***************************************************************************)
(* Zenoh topic monitor (src/src/main.rs): the ingestion task               *)
(* (start_zenoh_subscriber) that keeps one TopicData per key together with *)
(* a per-key window of inter-arrival gaps, and the per-consumer delivery   *)
(* loop (sse_handler) that diffs the topic cache against the consumer's    *)
(* last snapshot.                                                          *)
(*                                                                         *)
(* Representation choices:                                                 *)
(*  - a HashMap is a function whose DOMAIN is the set of keys present;     *)
(*  - a String / Vec<u8> is a sequence; Option is <<>> or <<x>>;           *)
(*  - an f64 is the exact reduced fraction <<numerator, denominator>> of   *)
(*    the value the code computes (rounding to 53 bits is not modelled;    *)
(*    within the bounds below distinct fractions are distinct doubles);    *)
(*  - HashMap / HashSet iteration order is a nondeterministically chosen   *)
(*    enumeration of the key set;                                          *)
(*  - SystemTime::now() is not monotonic: a clock reading is an input.     *)
(***************************************************************************)
EXTENDS Integers, Sequences, FiniteSets, TLC

VARIABLES
    topic_cache,       \* TopicCache: key -> TopicData
    interval_history,  \* IntervalHistory: key -> <<last_ts, deltas>>
    pc,                \* position of the ingestion task in its loop body
    pending,           \* the TopicData built by the iteration in progress
    connected,         \* consumers with a live SSE stream
    last_snapshot,     \* per-consumer unfold state
    delta,             \* per-consumer: the last DeltaUpdate produced, with its inputs
    arrivals,          \* history variable: per key, every get_timestamp() ingested
    result,            \* what start_zenoh_subscriber returned, "none" while it runs
    committed,         \* history variable: the cache after each completed ingest
    now,               \* the runtime's clock (tokio Instant), in milliseconds
    tick_at,           \* history variable: per consumer, the clock at its last snapshot
    client,            \* per consumer, the `topics` map of the page fed by its stream
    owed               \* history variable: per consumer, the keys whose last store
                       \* no delta of its stream has listed in `updated` since

vars == <<topic_cache, interval_history, pc, pending, connected, last_snapshot,
          delta, arrivals, result, committed, now, tick_at, client, owed>>

----------------------------------------------------------------------------
(* Program constants *)

WINDOW_SIZE == 20

RELOAD_PERIOD_MS == 1000

DECODER == TRUE   \* const DECODER: DecoderFn = Some(..)

----------------------------------------------------------------------------
(* Bounds of the model *)

Keys == {"a", "b"}

Consumers == {"c1", "c2"}

MaxTime == 1

Times == 0..MaxTime

\* payloads as byte sequences: "a" and "<a"
Payloads == {<<97>>, <<60, 97>>}

MaxIngests == 2

\* how many messages arrive in SpecFail
MaxFailIngests == 1

\* how many messages arrive in SpecLive
MaxLiveIngests == 2

\* how many half periods the clock may advance (SpecTimer)
MaxHalfPeriods == 3

\* the long single-key runs that fill the window (SpecRate)
RateKey == "a"

RatePayload == <<97>>

\* the first clock reading and the regular period between readings
RateClock == [start |-> 1000, step |-> 100]

\* how many readings of a run may deviate from the regular period
MaxJitter == 2

MaxRateIngests == 23

\* the records a mapping handed to the diff may hold for a key (SpecDiff)
DiffShapes == {<<1, 0>>, <<1, 1>>, <<2, 1>>}   \* <<size, timestamp>>

----------------------------------------------------------------------------
(* Generic helpers *)

EmptyMap == <<>>

\* variant: the whole map is replaced by the new entry
InsertFresh(m, k, v) == [x \in {k} |-> v]

Insert(m, k, v) == [x \in (DOMAIN m) \cup {k} |-> IF x = k THEN v ELSE m[x]]

Range(s) == {s[i] : i \in DOMAIN s}

RECURSIVE SeqSum(_)
SeqSum(s) == IF s = <<>> THEN 0 ELSE s[1] + SeqSum(Tail(s))

RECURSIVE GCD(_, _)
GCD(x, y) == IF y = 0 THEN x ELSE GCD(y, x % y)

\* the value n/d as a reduced fraction (d > 0)
Frac(n, d) == LET g == GCD(n, d) IN <<n \div g, d \div g>>

\* x / f for an integer x and a fraction f > 0
FracDiv(x, f) == Frac(x * f[2], f[1])

Zero == <<0, 1>>

\* all enumerations (without repetition) of a finite set
Orders(S) == {o \in [1..Cardinality(S) -> S] : Range(o) = S}

None == <<>>

Some(x) == <<x>>

----------------------------------------------------------------------------
(* Decoding *)

\* the decoder renders each payload byte as a character
ByteChar(b) == IF b = 60 THEN "<" ELSE IF b = 62 THEN ">" ELSE IF b = 38 THEN "&" ELSE "a"

simple_decoder(bytes) == [i \in 1..Len(bytes) |-> ByteChar(bytes[i])]

EscapeChar(c) ==
    IF c = "<" THEN <<"&", "l", "t", ";">>
    ELSE IF c = ">" THEN <<"&", "g", "t", ";">>
    ELSE IF c = "&" THEN <<"&", "a", "m", "p", ";">>
    ELSE <<c>>

RECURSIVE html_escape_string(_)
html_escape_string(input) ==
    IF input = <<>> THEN <<>>
    ELSE EscapeChar(Head(input)) \o html_escape_string(Tail(input))

DecodedContent(payload) ==
    IF DECODER THEN Some(html_escape_string(simple_decoder(payload))) ELSE None

----------------------------------------------------------------------------
(* Rate estimator: main.rs 81-106 *)

\* variant: the bound is tested one element too late
PushDeltaLate(deltas, d, w) ==
    LET pushed == Append(deltas, d)
    IN  IF Len(pushed) > w + 1 THEN Tail(pushed) ELSE pushed

\* variant: the newest gap before the push is dropped instead of the oldest
PushDeltaNewest(deltas, d, w) ==
    LET pushed == Append(deltas, d)
    IN  IF Len(pushed) > w
        THEN Append(SubSeq(deltas, 1, Len(deltas) - 1), d)
        ELSE pushed

\* entry.1.push(delta); if entry.1.len() > WINDOW_SIZE { entry.1.remove(0); }
PushDelta(deltas, d, w) ==
    LET pushed == Append(deltas, d)
    IN  IF Len(pushed) > w THEN Tail(pushed) ELSE pushed

\* Vec::remove(0) panics when the vector is empty
RemovePanics(deltas, d, w) ==
    LET pushed == Append(deltas, d)
    IN  Len(pushed) > w /\ ~(0 < Len(pushed))

\* variant: a repeated clock reading pushes a gap of 0
UpdateDeltasGeq(entry, timestamp, w) ==
    LET last_ts == entry[1]
    IN  IF timestamp >= last_ts
        THEN PushDelta(entry[2], timestamp - last_ts, w)
        ELSE entry[2]

\* if timestamp > last_ts { push } ; the window after the observation
UpdateDeltas(entry, timestamp, w) ==
    LET last_ts == entry[1]
    IN  IF timestamp > last_ts
        THEN PushDelta(entry[2], timestamp - last_ts, w)
        ELSE entry[2]

\* variant: the sum is averaged over the capacity of the window
EstimatedHzCapacity(deltas) ==
    IF deltas # <<>>
    THEN LET avg_delta == Frac(SeqSum(deltas), WINDOW_SIZE)
         IN  IF avg_delta[1] > 0 THEN FracDiv(1000, avg_delta) ELSE Zero
    ELSE Zero

EstimatedHz(deltas) ==
    IF deltas # <<>>
    THEN LET avg_delta == Frac(SeqSum(deltas), Len(deltas))
         IN  IF avg_delta[1] > 0 THEN FracDiv(1000, avg_delta) ELSE Zero
    ELSE Zero

TopicData(key_expr, data_bytes, timestamp, decoded_content, estimated_hz) ==
    [key_expr |-> key_expr,
     last_data_size_bytes |-> data_bytes,
     received_timestamp |-> timestamp,
     decoded_content |-> decoded_content,
     estimated_hz |-> estimated_hz]

NoPending == <<>>

----------------------------------------------------------------------------
(* Snapshot diff: main.rs 712-744 *)

\* variant: the records are compared without their timestamps
ChangedNoTimestamp(last, key, value) ==
    IF key \in DOMAIN last
    THEN LET old == last[key]
         IN  [old EXCEPT !.received_timestamp = 0] # [value EXCEPT !.received_timestamp = 0]
    ELSE TRUE

\* variant: every record that was already known is reported again
ChangedAlways(last, key, value) == TRUE

Changed(last, key, value) ==
    IF key \in DOMAIN last
    THEN LET old == last[key]
         IN  old.received_timestamp # value.received_timestamp \/ old # value
    ELSE TRUE

\* variant: the loop ends at the first unchanged record
UpdatedUntilUnchanged(last, current, order) ==
    LET stop == {i \in 1..Len(order) : ~Changed(last, order[i], current[order[i]])}
        n == IF stop = {} THEN Len(order)
             ELSE (CHOOSE i \in stop : \A j \in stop : i <= j) - 1
    IN  [i \in 1..n |-> current[order[i]]]

\* for (key, value) in current_cache.iter() { if changed { updated.push(value.clone()) } }
Updated(last, current, order) ==
    LET ks == SelectSeq(order, LAMBDA k : Changed(last, k, current[k]))
    IN  [i \in 1..Len(ks) |-> current[ks[i]]]

\* variant: the operands of the set difference are exchanged
RemovedSwapped(last_keys, current_keys, order) ==
    SelectSeq(order, LAMBDA k : k \in current_keys /\ k \notin last_keys)

\* variant: every key of the last snapshot is listed
RemovedAll(last_keys, current_keys, order) ==
    SelectSeq(order, LAMBDA k : k \in last_keys)

\* for key in last_keys.difference(&current_keys) { removed.push(key.to_string()) }
Removed(last_keys, current_keys, order) ==
    SelectSeq(order, LAMBDA k : k \in last_keys /\ k \notin current_keys)

\* serde_json::to_string(&delta): a field whose list is empty is left out
Serialize(updated, removed) ==
    LET fields == (IF updated = <<>> THEN {} ELSE {"updated"})
                  \cup (IF removed = <<>> THEN {} ELSE {"removed"})
    IN  [f \in fields |-> IF f = "updated" THEN updated ELSE removed]

\* main.rs 747-753: the item the stream yields for a delta
StreamItem(updated, removed) == Some(Serialize(updated, removed))

NoDelta == [sent |-> FALSE]

NoTick == -1

\* main.rs 709-710: the instant at which the first tick of an interval
\* created at created_at completes; tokio's interval(period) starts at once
IntervalFirstTick(created_at, period) == created_at

\* generate_html, the "message" listener: every updated record is set under
\* its key_expr, then every removed key is deleted
RECURSIVE SetAll(_, _)
SetAll(topics, updated) ==
    IF updated = <<>> THEN topics
    ELSE SetAll(Insert(topics, Head(updated).key_expr, Head(updated)), Tail(updated))

\* variant: the page shows the records of the last message only
ApplyDeltaReplace(topics, item) ==
    LET data == item[1]
        updated == IF "updated" \in DOMAIN data THEN data["updated"] ELSE <<>>
    IN  SetAll(EmptyMap, updated)

ApplyDelta(topics, item) ==
    LET data == item[1]
        updated == IF "updated" \in DOMAIN data THEN data["updated"] ELSE <<>>
        removed == IF "removed" \in DOMAIN data THEN data["removed"] ELSE <<>>
        set == SetAll(topics, updated)
    IN  [k \in DOMAIN set \ Range(removed) |-> set[k]]

----------------------------------------------------------------------------
(* Initial state: main.rs 809-810, no consumer connected *)

Init ==
    /\ topic_cache = EmptyMap
    /\ interval_history = EmptyMap
    /\ pc = "recv"
    /\ pending = NoPending
    /\ connected = {}
    /\ last_snapshot = [c \in Consumers |-> EmptyMap]
    /\ delta = [c \in Consumers |-> NoDelta]
    /\ arrivals = [k \in Keys |-> <<>>]
    /\ result = "none"
    /\ committed = {EmptyMap}
    /\ now = 0
    /\ tick_at = [c \in Consumers |-> NoTick]
    /\ client = [c \in Consumers |-> EmptyMap]
    /\ owed = [c \in Consumers |-> {}]

----------------------------------------------------------------------------
(* Ingestion task *)

\* main.rs 76-120: a sample is received, the clock is read, the interval
\* history is updated under its write lock and the TopicData is built; the
\* task then awaits the cache's write lock.
IngestHistory(key_expr, payload, timestamp, w) ==
    /\ pc = "recv"
    /\ LET data_bytes == Len(payload)
           entry == IF key_expr \in DOMAIN interval_history
                    THEN interval_history[key_expr]
                    ELSE <<timestamp, <<>>>>
           deltas == UpdateDeltas(entry, timestamp, w)
           estimated_hz == EstimatedHz(deltas)
       IN  IF timestamp > entry[1] /\ RemovePanics(entry[2], timestamp - entry[1], w)
           THEN \* the task unwinds inside the push; the guard is released
                /\ interval_history' = Insert(interval_history, key_expr,
                                              <<entry[1], Append(entry[2], timestamp - entry[1])>>)
                /\ pending' = NoPending
                /\ pc' = "panicked"
           ELSE /\ interval_history' = Insert(interval_history, key_expr, <<timestamp, deltas>>)
                /\ pending' = TopicData(key_expr, data_bytes, timestamp,
                                        DecodedContent(payload), estimated_hz)
                /\ pc' = "insert"
    /\ arrivals' = [arrivals EXCEPT ![key_expr] = Append(@, timestamp)]
    /\ UNCHANGED <<topic_cache, connected, last_snapshot, delta, result, committed,
                   now, tick_at, client, owed>>

\* variant: the snapshots share their records with the cache
IngestInsertAliased ==
    /\ pc = "insert"
    /\ topic_cache' = Insert(topic_cache, pending.key_expr, pending)
    /\ pending' = NoPending
    /\ pc' = "recv"
    /\ committed' = committed \cup {topic_cache'}
    /\ last_snapshot' = [c \in Consumers |->
                            IF pending.key_expr \in DOMAIN last_snapshot[c]
                            THEN Insert(last_snapshot[c], pending.key_expr, pending)
                            ELSE last_snapshot[c]]
    /\ owed' = [c \in Consumers |->
                   IF c \in connected THEN owed[c] \cup {pending.key_expr} ELSE owed[c]]
    /\ UNCHANGED <<interval_history, connected, delta, arrivals, result, now, tick_at,
                   client>>

\* main.rs 123: topic_cache.write().await.insert(key_expr, topic_data)
IngestInsert ==
    /\ pc = "insert"
    /\ topic_cache' = Insert(topic_cache, pending.key_expr, pending)
    /\ pending' = NoPending
    /\ pc' = "recv"
    /\ committed' = committed \cup {topic_cache'}
    /\ owed' = [c \in Consumers |->
                   IF c \in connected THEN owed[c] \cup {pending.key_expr} ELSE owed[c]]
    /\ UNCHANGED <<interval_history, connected, last_snapshot, delta, arrivals, result,
                   now, tick_at, client>>

\* variant: the failure ends the process and with it every stream
RecvFailExit ==
    /\ pc = "recv"
    /\ pc' = "returned"
    /\ result' = "Ok"
    /\ connected' = {}
    /\ last_snapshot' = [c \in Consumers |-> EmptyMap]
    /\ delta' = [c \in Consumers |-> NoDelta]
    /\ tick_at' = [c \in Consumers |-> NoTick]
    /\ client' = [c \in Consumers |-> EmptyMap]
    /\ owed' = [c \in Consumers |-> {}]
    /\ UNCHANGED <<topic_cache, interval_history, pending, arrivals, committed, now>>

\* main.rs 76, 126: recv_async() returns Err; `while let Ok(..)` leaves the
\* loop and the function returns Ok(())
RecvFail ==
    /\ pc = "recv"
    /\ pc' = "returned"
    /\ result' = "Ok"
    /\ UNCHANGED <<topic_cache, interval_history, pending, connected, last_snapshot,
                   delta, arrivals, committed, now, tick_at, client, owed>>

\* main.rs 815-819: main logs an error only for an Err from the subscriber
ErrorLogged == result = "Err"

----------------------------------------------------------------------------
(* Consumers *)

\* variant: a new stream starts from a copy of the cache
ConnectFromCache(c) ==
    /\ c \notin connected
    /\ connected' = connected \cup {c}
    /\ last_snapshot' = [last_snapshot EXCEPT ![c] = topic_cache]
    /\ delta' = [delta EXCEPT ![c] = NoDelta]
    /\ tick_at' = [tick_at EXCEPT ![c] = NoTick]
    /\ client' = [client EXCEPT ![c] = EmptyMap]
    /\ owed' = [owed EXCEPT ![c] = {}]
    /\ UNCHANGED <<topic_cache, interval_history, pc, pending, arrivals, result, committed,
                   now>>

\* main.rs 705-706: a new stream starts from an empty last_snapshot
Connect(c) ==
    /\ c \notin connected
    /\ connected' = connected \cup {c}
    /\ last_snapshot' = [last_snapshot EXCEPT ![c] = EmptyMap]
    /\ delta' = [delta EXCEPT ![c] = NoDelta]
    /\ tick_at' = [tick_at EXCEPT ![c] = NoTick]
    /\ client' = [client EXCEPT ![c] = EmptyMap]
    /\ owed' = [owed EXCEPT ![c] = DOMAIN topic_cache]
    /\ UNCHANGED <<topic_cache, interval_history, pc, pending, arrivals, result, committed,
                   now>>

\* variant: dropping one stream ends all of them
DisconnectAll(c) ==
    /\ c \in connected
    /\ connected' = {}
    /\ last_snapshot' = [o \in Consumers |-> EmptyMap]
    /\ delta' = [o \in Consumers |-> NoDelta]
    /\ tick_at' = [o \in Consumers |-> NoTick]
    /\ client' = [o \in Consumers |-> EmptyMap]
    /\ owed' = [o \in Consumers |-> {}]
    /\ UNCHANGED <<topic_cache, interval_history, pc, pending, arrivals, result, committed,
                   now>>

\* the stream (and the state it owns) is dropped
Disconnect(c) ==
    /\ c \in connected
    /\ connected' = connected \ {c}
    /\ last_snapshot' = [last_snapshot EXCEPT ![c] = EmptyMap]
    /\ delta' = [delta EXCEPT ![c] = NoDelta]
    /\ tick_at' = [tick_at EXCEPT ![c] = NoTick]
    /\ client' = [client EXCEPT ![c] = EmptyMap]
    /\ owed' = [owed EXCEPT ![c] = {}]
    /\ UNCHANGED <<topic_cache, interval_history, pc, pending, arrivals, result, committed,
                   now>>

\* the delta of one iteration over the cache contents it read
TickOver(c, current_cache, next_snapshot) ==
    /\ c \in connected
    /\ now >= IntervalFirstTick(now, RELOAD_PERIOD_MS)
    /\ LET current_keys == DOMAIN current_cache
           last_keys == DOMAIN last_snapshot[c]
       IN  \E o1 \in Orders(current_keys), o2 \in Orders(last_keys) :
              LET updated == Updated(last_snapshot[c], current_cache, o1)
                  removed == Removed(last_keys, current_keys, o2)
              IN  /\ delta' = [delta EXCEPT ![c] =
                                  [sent |-> TRUE,
                                   previous |-> last_snapshot[c],
                                   current |-> current_cache,
                                   updated |-> updated,
                                   removed |-> removed,
                                   event |-> StreamItem(updated, removed)]]
                  /\ client' = [client EXCEPT ![c] =
                                   ApplyDelta(@, StreamItem(updated, removed))]
                  /\ owed' = [owed EXCEPT ![c] =
                                 @ \ {updated[i].key_expr : i \in DOMAIN updated}]
    /\ last_snapshot' = [last_snapshot EXCEPT ![c] = next_snapshot]
    /\ tick_at' = [tick_at EXCEPT ![c] = now]
    /\ UNCHANGED <<topic_cache, interval_history, pc, pending, connected, arrivals,
                   result, committed, now>>

\* variant: the cache is read without its lock, while an insert is writing
\* the fields of the key's record
TickTorn(c) ==
    LET k == pending.key_expr
        torn == IF pc = "insert" /\ k \in DOMAIN topic_cache
                THEN [topic_cache EXCEPT
                         ![k].received_timestamp = pending.received_timestamp]
                ELSE topic_cache
    IN  TickOver(c, torn, torn)

\* variant: last_snapshot is not replaced after the diff
TickKeep(c) == TickOver(c, topic_cache, last_snapshot[c])

\* main.rs 712-753: one iteration of the unfold closure, under the cache's
\* read lock
Tick(c) ==
    /\ c \in connected
    /\ now >= IntervalFirstTick(now, RELOAD_PERIOD_MS)
    /\ LET current_cache == topic_cache
           current_keys == DOMAIN current_cache
           last_keys == DOMAIN last_snapshot[c]
       IN  \E o1 \in Orders(current_keys), o2 \in Orders(last_keys) :
              LET updated == Updated(last_snapshot[c], current_cache, o1)
                  removed == Removed(last_keys, current_keys, o2)
              IN  /\ delta' = [delta EXCEPT ![c] =
                                  [sent |-> TRUE,
                                   previous |-> last_snapshot[c],
                                   current |-> current_cache,
                                   updated |-> updated,
                                   removed |-> removed,
                                   event |-> StreamItem(updated, removed)]]
                  /\ client' = [client EXCEPT ![c] =
                                   ApplyDelta(@, StreamItem(updated, removed))]
                  /\ owed' = [owed EXCEPT ![c] =
                                 @ \ {updated[i].key_expr : i \in DOMAIN updated}]
    /\ last_snapshot' = [last_snapshot EXCEPT ![c] = topic_cache]
    /\ tick_at' = [tick_at EXCEPT ![c] = now]
    /\ UNCHANGED <<topic_cache, interval_history, pc, pending, connected, arrivals,
                   result, committed, now>>

----------------------------------------------------------------------------
(* The program *)

TotalArrivals == Len(arrivals["a"]) + Len(arrivals["b"])

Ingest ==
    /\ TotalArrivals < MaxIngests
    /\ \E k \in Keys, p \in Payloads, t \in Times : IngestHistory(k, p, t, WINDOW_SIZE)

Next ==
    \/ Ingest
    \/ IngestInsert
    \/ \E c \in Consumers : Connect(c)
    \/ \E c \in Consumers : Disconnect(c)
    \/ \E c \in Consumers : Tick(c)

Spec == Init /\ [][Next]_vars

----------------------------------------------------------------------------
(* The program with a subscriber whose receive may fail *)

IngestFail ==
    /\ TotalArrivals < MaxFailIngests
    /\ \E k \in Keys, p \in Payloads, t \in Times : IngestHistory(k, p, t, WINDOW_SIZE)

NextFail ==
    \/ IngestFail
    \/ IngestInsert
    \/ RecvFail
    \/ \E c \in Consumers : Connect(c)
    \/ \E c \in Consumers : Disconnect(c)
    \/ \E c \in Consumers : Tick(c)

SpecFail == Init /\ [][NextFail]_vars

----------------------------------------------------------------------------
(* One consumer's stream under a runtime that keeps polling it *)

LiveConsumers == {"c1"}

IngestLive ==
    /\ TotalArrivals < MaxLiveIngests
    /\ \E key_expr \in Keys, payload \in Payloads, timestamp \in Times :
           IngestHistory(key_expr, payload, timestamp, WINDOW_SIZE)

NextLive ==
    \/ IngestLive
    \/ IngestInsert
    \/ \E c \in LiveConsumers : Connect(c)
    \/ \E c \in LiveConsumers : Disconnect(c)
    \/ \E c \in LiveConsumers : Tick(c)

\* warp polls the stream of a connected consumer again after every event
SpecLive == Init /\ [][NextLive]_vars /\ \A c \in LiveConsumers : WF_vars(Tick(c))

----------------------------------------------------------------------------
(* The delivery loops with the passing of time *)

AdvanceClock ==
    /\ now < MaxHalfPeriods * (RELOAD_PERIOD_MS \div 2)
    /\ now' = now + (RELOAD_PERIOD_MS \div 2)
    /\ UNCHANGED <<topic_cache, interval_history, pc, pending, connected, last_snapshot,
                   delta, arrivals, result, committed, tick_at, client, owed>>

NextTimer ==
    \/ AdvanceClock
    \/ Ingest
    \/ IngestInsert
    \/ \E c \in Consumers : Connect(c)
    \/ \E c \in Consumers : Tick(c)

SpecTimer == Init /\ [][NextTimer]_vars

----------------------------------------------------------------------------
(* The rate estimator on long runs of one key: the clock mostly advances by *)
(* the regular period; at most MaxJitter readings repeat the previous one,  *)
(* fall behind it, or skip a period.                                        *)

Last(s) == s[Len(s)]

Jitter(ts) == Cardinality({i \in 1..(Len(ts) - 1) : ts[i + 1] # ts[i] + RateClock.step})

RateTimes ==
    LET ts == arrivals[RateKey]
    IN  IF ts = <<>> THEN {RateClock.start}
        ELSE {Last(ts) + RateClock.step}
             \cup (IF Jitter(ts) < MaxJitter
                   THEN {Last(ts) + 2 * RateClock.step, Last(ts), Last(ts) - RateClock.step}
                   ELSE {})

IngestRate ==
    /\ Len(arrivals[RateKey]) < MaxRateIngests
    /\ \E t \in RateTimes : IngestHistory(RateKey, RatePayload, t, WINDOW_SIZE)

NextRate ==
    \/ IngestRate
    \/ IngestInsert

SpecRate == Init /\ [][NextRate]_vars

----------------------------------------------------------------------------
(* The ingestion task built with a window size of 0 *)

IngestW0 ==
    /\ TotalArrivals < MaxIngests
    /\ \E k \in Keys, p \in Payloads, t \in Times : IngestHistory(k, p, t, 0)

NextW0 ==
    \/ IngestW0
    \/ IngestInsert
    \/ RecvFail

SpecW0 == Init /\ [][NextW0]_vars

----------------------------------------------------------------------------
(* The diff of sse_handler on arbitrary pairs of mappings: every consumer   *)
(* starts from an arbitrary last_snapshot and the cache holds an arbitrary  *)
(* mapping.                                                                 *)

DiffRecords(k) ==
    {TopicData(k, sh[1], sh[2], DecodedContent(RatePayload), Zero) : sh \in DiffShapes}

DiffMaps ==
    UNION {{m \in [S -> UNION {DiffRecords(k) : k \in Keys}] :
               \A k \in S : m[k].key_expr = k} : S \in SUBSET Keys}

InitDiff ==
    /\ topic_cache \in DiffMaps
    /\ interval_history = EmptyMap
    /\ pc = "recv"
    /\ pending = NoPending
    /\ connected = Consumers
    /\ last_snapshot \in [Consumers -> DiffMaps]
    /\ delta = [c \in Consumers |-> NoDelta]
    /\ arrivals = [k \in Keys |-> <<>>]
    /\ result = "none"
    /\ committed = {topic_cache}
    /\ now = 0
    /\ tick_at = [c \in Consumers |-> NoTick]
    /\ client = last_snapshot
    /\ owed = [c \in Consumers |-> {}]

NextDiff == \E c \in Consumers : Tick(c)

SpecDiff == InitDiff /\ [][NextDiff]_vars

----------------------------------------------------------------------------
(* Properties of the diff *)

Ticked == {c \in Consumers : delta[c].sent}

\* the positions of `updated` that hold a record of key k
UpdatedAt(d, k) == {i \in DOMAIN d.updated : d.updated[i].key_expr = k}

RemovedAt(d, k) == {i \in DOMAIN d.removed : d.removed[i] = k}

\* the records differ, and in nothing but received_timestamp
TimestampOnly(old, value) ==
    /\ old # value
    /\ [old EXCEPT !.received_timestamp = value.received_timestamp] = value

\* C1: after a tick, every record of the cache read by the tick whose key is
\* absent from the previous snapshot, or whose record differs from the
\* previous one in any field, is in `updated` exactly once.
C1_UpdatedComplete ==
    \A c \in Ticked :
        LET d == delta[c]
        IN  \A k \in DOMAIN d.current :
                (k \notin DOMAIN d.previous \/ d.previous[k] # d.current[k])
                    => /\ Cardinality(UpdatedAt(d, k)) = 1
                       /\ \A i \in UpdatedAt(d, k) : d.updated[i] = d.current[k]

\* a tick reported a record that differs from the previous one in its
\* timestamp alone
C1_Witness ==
    \E c \in Ticked :
        LET d == delta[c]
        IN  \E k \in DOMAIN d.current \cap DOMAIN d.previous :
               /\ TimestampOnly(d.previous[k], d.current[k])
               /\ UpdatedAt(d, k) # {}

\* C2: after a tick, `removed` holds exactly the keys of the previous
\* snapshot that are absent from the cache read by the tick, each once.
C2_RemovedExact ==
    \A c \in Ticked :
        LET d == delta[c]
        IN  /\ Range(d.removed) = DOMAIN d.previous \ DOMAIN d.current
            /\ \A k \in Range(d.removed) : Cardinality(RemovedAt(d, k)) = 1

\* a tick removed one key and kept another
C2_Witness ==
    \E c \in Ticked :
        LET d == delta[c]
        IN  /\ d.removed # <<>>
            /\ DOMAIN d.previous \cap DOMAIN d.current # {}
            /\ Range(d.removed) # DOMAIN d.previous

\* C3: a key whose record is the same in the previous snapshot and in the
\* cache read by the tick is neither in `updated` nor in `removed`.
C3_NoSpuriousChange ==
    \A c \in Ticked :
        LET d == delta[c]
        IN  \A k \in DOMAIN d.previous \cap DOMAIN d.current :
                d.previous[k] = d.current[k]
                    => UpdatedAt(d, k) = {} /\ RemovedAt(d, k) = {}

\* a tick left one key out of the delta while it reported another
C3_Witness ==
    \E c \in Ticked :
        LET d == delta[c]
        IN  /\ \E k \in DOMAIN d.previous \cap DOMAIN d.current :
                   d.previous[k] = d.current[k]
            /\ d.updated # <<>>

\* C4: no key is both the key of a record of `updated` and in `removed`.
C4_Disjoint ==
    \A c \in Ticked :
        LET d == delta[c]
        IN  \A k \in Keys : UpdatedAt(d, k) = {} \/ RemovedAt(d, k) = {}

\* one delta carries an update and a removal
C4_Witness ==
    \E c \in Ticked : delta[c].updated # <<>> /\ delta[c].removed # <<>>

\* C5: two diffs of the same previous snapshot against the same cache
\* contents give the same set of updated records and the same set of removed
\* keys, whichever consumer computes them and in whatever iteration order.
C5_DiffDeterminate ==
    \A c1, c2 \in Ticked :
        (delta[c1].previous = delta[c2].previous /\ delta[c1].current = delta[c2].current)
            => /\ Range(delta[c1].updated) = Range(delta[c2].updated)
               /\ Range(delta[c1].removed) = Range(delta[c2].removed)

\* two consumers diffed the same pair of mappings in different iteration orders
C5_Witness ==
    \E c1, c2 \in Ticked :
        /\ c1 # c2
        /\ delta[c1].previous = delta[c2].previous
        /\ delta[c1].current = delta[c2].current
        /\ delta[c1].updated # delta[c2].updated
        /\ Range(delta[c1].updated) = Range(delta[c2].updated)

----------------------------------------------------------------------------
(* Properties of the rate estimator *)

Window(k) == interval_history[k][2]

LastSeen(k) == interval_history[k][1]

Gaps(ts) == [i \in 1..(Len(ts) - 1) |-> ts[i + 1] - ts[i]]

StrictlyIncreasing(ts) == \A i \in 1..(Len(ts) - 1) : ts[i] < ts[i + 1]

\* C6: the window of every key has at most WINDOW_SIZE gaps.
C6_WindowBound ==
    \A k \in DOMAIN interval_history : Len(Window(k)) <= WINDOW_SIZE

\* a gap was pushed on a full window
C6_Witness ==
    \E k \in DOMAIN interval_history :
        /\ Len(Window(k)) = WINDOW_SIZE
        /\ Len(SelectSeq(Gaps(arrivals[k]), LAMBDA g : g > 0)) > WINDOW_SIZE

\* C7: after N > WINDOW_SIZE observations of a key with strictly increasing
\* timestamps, the window holds exactly the WINDOW_SIZE most recent gaps, in
\* arrival order.
C7_WindowRecent ==
    \A k \in DOMAIN interval_history :
        LET ts == arrivals[k]
            n == Len(ts)
        IN  (n > WINDOW_SIZE /\ StrictlyIncreasing(ts))
                => /\ Len(Window(k)) = WINDOW_SIZE
                   /\ Window(k) = SubSeq(Gaps(ts), n - WINDOW_SIZE, n - 1)

\* a long gap was evicted from the front while an equal one is still inside
C7_Witness ==
    \E k \in DOMAIN interval_history :
        LET ts == arrivals[k]
        IN  /\ Len(ts) > WINDOW_SIZE + 1
            /\ StrictlyIncreasing(ts)
            /\ Gaps(ts)[1] = 2 * RateClock.step
            /\ Window(k)[1] = RateClock.step
            /\ 2 * RateClock.step \in Range(Window(k))

\* C8: an observation whose timestamp is not after the key's last_seen
\* leaves the window as it was, sets last_seen to the timestamp, and its
\* record replaces the key's record in the cache; after 1000 then 900 the
\* window is empty, last_seen is 900 and estimated_hz is 0.
C8_OutOfOrder ==
    [][\A k \in Keys :
          /\ (/\ pc = "recv" /\ pc' = "insert"
              /\ pending'.key_expr = k
              /\ k \in DOMAIN interval_history
              /\ pending'.received_timestamp <= LastSeen(k))
                => /\ interval_history'[k][2] = Window(k)
                   /\ interval_history'[k][1] = pending'.received_timestamp
                   /\ Last(arrivals'[k]) = pending'.received_timestamp
          /\ (pc = "insert" /\ pc' = "recv" /\ pending.key_expr = k)
                => /\ k \in DOMAIN topic_cache'
                   /\ topic_cache'[k] = pending
                   /\ topic_cache'[k].received_timestamp = LastSeen(k)
                   /\ arrivals[k] = <<1000, 900>>
                         => /\ Window(k) = <<>>
                            /\ LastSeen(k) = 900
                            /\ topic_cache'[k].estimated_hz = Zero]_vars

\* the record of a late observation is in the cache, the window still full
\* of the gaps seen before it
C8_Witness ==
    \E k \in DOMAIN topic_cache :
        LET ts == arrivals[k]
        IN  /\ pc = "recv"
            /\ Len(ts) > 2
            /\ Last(ts) < ts[Len(ts) - 1]
            /\ topic_cache[k].received_timestamp = Last(ts)
            /\ LastSeen(k) = Last(ts)
            /\ Len(Window(k)) = Len(ts) - 2

\* C9: the stored record's estimated_hz is 0 while the key's window is
\* empty and 1000 * length / sum of the window otherwise; after 1000, 1100,
\* 1200, 1300 the window is <<100, 100, 100>> and estimated_hz is 10.
C9_RateOfWindow ==
    pc = "recv" =>
        \A k \in DOMAIN topic_cache :
            /\ Window(k) = <<>> => topic_cache[k].estimated_hz = <<0, 1>>
            /\ Window(k) # <<>> =>
                  LET hz == topic_cache[k].estimated_hz
                  IN  /\ hz[1] * SeqSum(Window(k)) = 1000 * Len(Window(k)) * hz[2]
                      /\ hz[2] > 0
                      /\ GCD(hz[1], hz[2]) = 1
            /\ Len(arrivals[k]) = 1 => topic_cache[k].estimated_hz = <<0, 1>>
            /\ arrivals[k] = <<1000, 1100, 1200, 1300>>
                  => /\ Window(k) = <<100, 100, 100>>
                     /\ topic_cache[k].estimated_hz = <<10, 1>>

\* a rate that is not a whole number was stored for a window of unequal gaps
C9_Witness ==
    \E k \in DOMAIN topic_cache :
        /\ pc = "recv"
        /\ Len(Window(k)) = 3
        /\ Range(Window(k)) = {RateClock.step, 2 * RateClock.step}
        /\ topic_cache[k].estimated_hz[2] # 1

\* C10: the received_timestamp of a key's record in the cache never
\* decreases from one stored record to the next.
C10_TimestampMonotonic ==
    [][\A k \in DOMAIN topic_cache :
          topic_cache'[k].received_timestamp >= topic_cache[k].received_timestamp]_vars

----------------------------------------------------------------------------
(* Properties of the consumers and of the ingestion task as a whole *)

Others(c) == Consumers \ {c}

\* a step in which consumer c produced its first delta since it connected
FirstTick(c) == c \in connected /\ ~delta[c].sent /\ delta'[c].sent

\* the delta lists every record of the mapping m once and removes nothing
ListsAll(d, m) ==
    /\ Range(d.updated) = Range(m)
    /\ Len(d.updated) = Cardinality(DOMAIN m)
    /\ d.removed = <<>>

\* C11: a consumer's stored snapshot is changed by no ingest and by no other
\* consumer's tick, and a step that replaces or clears a consumer's snapshot
\* changes neither the cache nor any other consumer's snapshot.
C11_SnapshotIsolation ==
    [][/\ (topic_cache' # topic_cache \/ interval_history' # interval_history)
             => last_snapshot' = last_snapshot
       /\ \A c \in Consumers :
             last_snapshot'[c] # last_snapshot[c]
                 => /\ topic_cache' = topic_cache
                    /\ \A o \in Others(c) : last_snapshot'[o] = last_snapshot[o]]_vars

\* one consumer still holds a snapshot older than the cache while the other
\* holds the cache as it is now
C11_Witness ==
    \E c \in Ticked : \E o \in Ticked \ {c} :
        /\ last_snapshot[c] # EmptyMap
        /\ last_snapshot[c] # topic_cache
        /\ DOMAIN last_snapshot[c] = DOMAIN topic_cache
        /\ last_snapshot[o] = topic_cache

\* C12: the cache contents a tick reads are the cache after some whole
\* number of completed ingests, and every record read has its size, decoded
\* content, timestamp and rate from one ingest.
C12_TickReadsCommitted ==
    \A c \in Ticked :
        LET d == delta[c]
        IN  /\ d.current \in committed
            /\ last_snapshot[c] \in committed
            /\ \A k \in DOMAIN d.current :
                   LET r == d.current[k]
                   IN  /\ r.key_expr = k
                       /\ r.received_timestamp \in Range(arrivals[k])
                       /\ \E p \in Payloads :
                              /\ r.last_data_size_bytes = Len(p)
                              /\ r.decoded_content = DecodedContent(p)

\* a consumer ticked over the previous record of a key whose next record is
\* built and waits for the cache
C12_Witness ==
    \E c \in Ticked :
        /\ pc = "insert"
        /\ pending.key_expr \in DOMAIN topic_cache
        /\ topic_cache[pending.key_expr] # pending
        /\ delta[c].current = topic_cache
        /\ delta[c].previous = EmptyMap

\* C13: a tick of a consumer diffs against that consumer's snapshot of its
\* previous tick and leaves the cache contents it read as the new snapshot.
C13_TickChain ==
    [][\A c \in Consumers :
          /\ (delta'[c] # delta[c] /\ delta'[c].sent)
                => /\ delta'[c].previous = last_snapshot[c]
                   /\ delta'[c].current = topic_cache
          /\ delta'[c].sent => last_snapshot'[c] = delta'[c].current]_vars

\* a consumer diffed against its own earlier snapshot, which is neither the
\* cache nor the other consumer's snapshot
C13_Witness ==
    \E c \in Ticked : \E o \in Others(c) :
        /\ delta[c].previous # EmptyMap
        /\ delta[c].previous # delta[c].current
        /\ last_snapshot[o] # delta[c].previous
        /\ last_snapshot[c] = delta[c].current

\* C14: a consumer starts from an empty snapshot, so its first delta lists
\* every record of the cache once and removes nothing.
C14_FirstTickAll ==
    [][\A c \in Consumers :
          /\ (c \notin connected /\ c \in connected')
                => last_snapshot'[c] = EmptyMap /\ ~delta'[c].sent
          /\ FirstTick(c)
                => /\ delta'[c].previous = EmptyMap
                   /\ ListsAll(delta'[c], topic_cache)]_vars

\* a first delta with the records of both keys, while the other consumer
\* has already seen the cache
C14_Witness ==
    \E c \in Ticked : \E o \in Ticked \ {c} :
        /\ delta[c].previous = EmptyMap
        /\ Len(delta[c].updated) = 2
        /\ delta[o].previous = topic_cache
        /\ delta[o].updated = <<>>

\* C15: with a window size of 0 no ingest panics, every window stays empty
\* and every stored record has estimated_hz 0.
C15_WindowZero ==
    /\ pc # "panicked"
    /\ \A k \in DOMAIN interval_history : interval_history[k][2] = <<>>
    /\ \A k \in DOMAIN topic_cache : topic_cache[k].estimated_hz = Zero
    /\ pending # NoPending => pending.estimated_hz = Zero

\* the second, later observation of a key is stored
C15_Witness ==
    \E k \in DOMAIN topic_cache :
        /\ pc = "recv"
        /\ Len(arrivals[k]) = 2
        /\ arrivals[k][1] < arrivals[k][2]
        /\ topic_cache[k].received_timestamp = arrivals[k][2]

\* C16: once the ingestion task has ended on a receive failure the cache
\* keeps its contents, the failure ends no stream, every connected consumer
\* can tick, a new consumer can connect, and a first delta still lists
\* every record.
C16_StaleButAvailable ==
    /\ [](pc = "returned" =>
            /\ \A c \in connected : ENABLED Tick(c)
            /\ \A c \in Consumers \ connected : ENABLED Connect(c))
    /\ [][/\ pc = "returned" => (pc' = "returned" /\ topic_cache' = topic_cache)
          /\ (pc # "returned" /\ pc' = "returned")
                => /\ connected' = connected
                   /\ last_snapshot' = last_snapshot
                   /\ topic_cache' = topic_cache
          /\ \A c \in Consumers :
                (pc = "returned" /\ FirstTick(c)) => ListsAll(delta'[c], topic_cache)]_vars

\* after the failure one consumer has the records, another is connected
\* and has not ticked yet
C16_Witness ==
    /\ pc = "returned"
    /\ topic_cache # EmptyMap
    /\ \E c \in Ticked : \E o \in connected \ Ticked :
           /\ c \in connected
           /\ delta[c].updated # <<>>
           /\ last_snapshot[c] = topic_cache

\* C17: when receiving fails the ingestion task ends with an error outcome,
\* which main reports.
C17_FailureReported ==
    pc = "returned" => (result = "Err" /\ ErrorLogged)

\* C18: a tick whose delta has nothing in `updated` and nothing in
\* `removed` sends no message.
C18_EmptyNotSent ==
    \A c \in Ticked :
        (delta[c].updated = <<>> /\ delta[c].removed = <<>>) => delta[c].event = None

\* C19: an ingest on key k never fails and changes only k: its history
\* entry first, then its record in the cache, stored under the record's own
\* key_expr and built from the observation; the other keys' entries and
\* records and every snapshot stay as they were.
C19_IngestFrame ==
    /\ [](/\ pc # "panicked"
           /\ pc = "insert" => ENABLED IngestInsert
           /\ \A k \in DOMAIN topic_cache : topic_cache[k].key_expr = k)
    /\ [][/\ (pc = "recv" /\ pc' = "insert")
                => LET k == pending'.key_expr
                   IN  /\ DOMAIN interval_history' = DOMAIN interval_history \cup {k}
                       /\ \A o \in DOMAIN interval_history \ {k} :
                              interval_history'[o] = interval_history[o]
                       /\ topic_cache' = topic_cache
                       /\ last_snapshot' = last_snapshot
          /\ (pc = "insert" /\ pc' = "recv")
                => LET k == pending.key_expr
                   IN  /\ DOMAIN topic_cache' = DOMAIN topic_cache \cup {k}
                       /\ topic_cache'[k] = pending
                       /\ topic_cache'[k].received_timestamp = Last(arrivals[k])
                       /\ \A o \in DOMAIN topic_cache \ {k} :
                              topic_cache'[o] = topic_cache[o]
                       /\ interval_history' = interval_history
                       /\ last_snapshot' = last_snapshot]_vars

\* the second key was ingested after a consumer stored the first
C19_Witness ==
    \E c \in Ticked :
        /\ pc = "recv"
        /\ DOMAIN topic_cache = Keys
        /\ Cardinality(DOMAIN last_snapshot[c]) = 1
        /\ \A k \in DOMAIN last_snapshot[c] : last_snapshot[c][k] = topic_cache[k]

\* C20: a tick or a disconnect of a consumer changes nothing but that
\* consumer's own state: the cache, the interval histories, the ingestion
\* task and every other consumer's snapshot and stream stay as they were,
\* and every other connected consumer can still tick.
C20_ConsumerFrame ==
    /\ [](\A c \in connected : ENABLED Tick(c))
    /\ [][\A c \in connected :
              (delta'[c] # delta[c] \/ last_snapshot'[c] # last_snapshot[c]
                  \/ c \notin connected')
                  => /\ topic_cache' = topic_cache
                     /\ interval_history' = interval_history
                     /\ pc' = pc /\ pending' = pending
                     /\ \A o \in Others(c) :
                            /\ last_snapshot'[o] = last_snapshot[o]
                            /\ delta'[o] = delta[o]
                            /\ (o \in connected') = (o \in connected)]_vars

\* one consumer is gone, the other still holds the snapshot of its tick
C20_Witness ==
    \E c \in Consumers \ connected : \E o \in connected \cap Ticked :
        /\ last_snapshot[o] # EmptyMap
        /\ last_snapshot[o] = delta[o].current
        /\ last_snapshot[c] = EmptyMap

----------------------------------------------------------------------------
(* Delivery over time, the page's map, and the cache against the histories *)

\* the record of k in the cache is not the one the page of c holds
Differs(c, k) == k \notin DOMAIN client[c] \/ client[c][k] # topic_cache[k]

\* C21 as stated: under fair ticks, every store of a record for k is
\* followed by a delta of the consumer's stream that lists a record of k in
\* `updated`, unless the consumer disconnects.
C21_EveryStoreDelivered ==
    \A c \in LiveConsumers : \A k \in Keys :
        (k \in owed[c]) ~> (k \notin owed[c])

\* C21: under fair ticks, every store of a record for k is followed by a
\* state in which the consumer holds the cache's record of k (the stored one
\* or one that superseded it), unless the consumer disconnects.
C21_StoreReachesConsumer ==
    \A c \in LiveConsumers : \A k \in Keys :
        (k \in owed[c]) ~> (c \notin connected \/ ~Differs(c, k))

\* a consumer that held a record of k was sent the record that superseded it
C21_Witness ==
    \E c \in connected \cap Ticked : \E k \in DOMAIN topic_cache :
        /\ k \notin owed[c]
        /\ UpdatedAt(delta[c], k) # {}
        /\ k \in DOMAIN delta[c].previous
        /\ delta[c].previous[k] # delta[c].current[k]
        /\ client[c][k] = topic_cache[k]
        /\ Len(arrivals[k]) = 2

\* C22: two consecutive snapshots of one consumer's stream are at least
\* RELOAD_PERIOD_MS apart on the runtime's clock.
C22_PeriodBetweenSnapshots ==
    [][\A c \in Consumers :
          (/\ delta[c].sent
           /\ delta'[c].sent
           /\ (delta'[c] # delta[c] \/ tick_at'[c] # tick_at[c]))
              => now' >= tick_at[c] + RELOAD_PERIOD_MS]_vars

\* C23: the map obtained by applying every delta sent to a consumer, in
\* order, to an empty map (each updated record set under its key, then each
\* removed key deleted) is the consumer's last_snapshot, the cache read by
\* its latest tick.
C23_ClientIsSnapshot ==
    \A c \in Consumers :
        /\ client[c] = last_snapshot[c]
        /\ c \in Ticked => client[c] = delta[c].current

\* the page holds two records, the second merged in by a later delta of one
\* record
C23_Witness ==
    \E c \in Ticked :
        /\ delta[c].previous # EmptyMap
        /\ Len(delta[c].updated) = 1
        /\ Cardinality(DOMAIN client[c]) = 2
        /\ \E k \in DOMAIN client[c] : UpdatedAt(delta[c], k) = {}

\* C24: no step removes a key from the cache; every consumer's snapshot has
\* only keys of the cache; `removed` of every delta sent is empty.
C24_KeysOnlyGrow ==
    /\ [](\A c \in Consumers :
              /\ DOMAIN last_snapshot[c] \subseteq DOMAIN topic_cache
              /\ c \in Ticked => /\ delta[c].removed = <<>>
                                 /\ "removed" \notin DOMAIN delta[c].event[1])
    /\ [][DOMAIN topic_cache \subseteq DOMAIN topic_cache']_vars

\* a consumer that knew one key ticked over a cache of two, nothing removed
C24_Witness ==
    \E c \in Ticked :
        /\ DOMAIN topic_cache = Keys
        /\ Cardinality(DOMAIN delta[c].previous) = 1
        /\ DOMAIN delta[c].current = Keys
        /\ delta[c].removed = <<>>

\* C25: while the ingestion task is between two messages, the cache and the
\* interval histories have the same keys, and each record's
\* received_timestamp is its key's last_seen and its estimated_hz the rate
\* of its key's window; a tick taken between an ingest's history update and
\* its insert reads the cache as the last completed ingest left it, with the
\* previous record of the key, if any.
C25_CacheMatchesHistory ==
    /\ [](pc \in {"recv", "returned"} =>
              /\ DOMAIN topic_cache = DOMAIN interval_history
              /\ \A k \in DOMAIN topic_cache :
                     /\ topic_cache[k].received_timestamp = LastSeen(k)
                     /\ topic_cache[k].estimated_hz = EstimatedHz(Window(k)))
    /\ [][\A c \in connected :
              (pc = "insert" /\ delta'[c].sent /\ delta'[c] # delta[c])
                  => LET k == pending.key_expr
                         seen == arrivals[k]
                     IN  /\ delta'[c].current = topic_cache
                         /\ topic_cache \in committed
                         /\ IF Len(seen) > 1
                            THEN delta'[c].current[k].received_timestamp
                                     = seen[Len(seen) - 1]
                            ELSE k \notin DOMAIN delta'[c].current]_vars

\* the history of a key is ahead of the cache, and a consumer that knew the
\* key's record has ticked over it again
C25_Witness ==
    \E c \in Ticked :
        /\ pc = "insert"
        /\ pending.key_expr \in DOMAIN topic_cache
        /\ topic_cache[pending.key_expr].received_timestamp # LastSeen(pending.key_expr)
        /\ delta[c].previous = topic_cache
        /\ delta[c].current = topic_cache

====
